---- MODULE Spec2Model ----
(***************************************************************************)
(* WiFi motion sensor (esp32c3-rust/esp-hacathon/src/bin/main.rs) and its  *)
(* host display (host-tuis/hello_test/src/main.rs).                        *)
(*                                                                         *)
(* Sensor side: the scan loop of main(), its baseline table and the line    *)
(* it writes to the UART.  Host side: read_serial_port() (the ingester),    *)
(* the Mutex<AppState> it shares with app()/render() (the consumer).        *)
(***************************************************************************)
EXTENDS Integers, Sequences, FiniteSets, TLC

(***************************************************************************)
(* Bounds of the model.                                                    *)
(***************************************************************************)
\* scans of the general sensor specification report at most this many APs
MaxScanLen == 2
\* distinct non-empty network names of the general sensor specification
NumNames == 1
\* the general sensor specification observes at most this many APs in total
MaxObs == 4
\* the sensor performs at most this many successful scans
MaxCounter == 7
\* the byte-level host specification receives at most this many bytes
MaxStreamLen == 4
\* the log specification receives at most this many telemetry lines
MaxLogLines == 105
\* the outage specification receives this many telemetry lines, then error lines
OutageStart == 2
\* the fair host specification receives at most this many bytes
MaxFairLen == 3
\* the pacing specification runs the sensor for this many milliseconds
MaxClock == 3000
\* the codec specification encodes records of at most this many access points
MaxCodecAps == 2
\* the codec specification encodes network names of at most this many characters
MaxSsidLen == 2

(***************************************************************************)
(* Program constants.                                                      *)
(***************************************************************************)
NumSlots == 10
ReadBufLen == 256
MaxMessages == 100
TakeLimit == 10
SsidCap == 32
BaselineInit == -100
MotionThreshold == 4
WarmupCycles == 5
WeightOld == 90
WeightNew == 10
WeightSum == 100

ScanIntervalMs == 1000
DelayMs == 50

\* Option::None of baseline_ssid[i] and of baseline_idx
None == -1

\* A network name is the string of n bytes "aa..a"; 0 is the empty name.
Names == 0..NumNames
Signals == {-40, -30, 88}
Channels == {1}

SlotIdx == 0..(NumSlots - 1)

VARIABLES
    \* ---- sensor: main() of esp-hacathon
    counter,          \* let mut counter = 0u32
    baseline_rssi,    \* [i8; 10]
    baseline_ssid,    \* [Option<String<32>>; 10]
    s_pc,             \* "loop" | "aps" (inside the for over scan_results) | "panicked"
    motion_detected,  \* let mut motion_detected
    rssi_values,      \* heapless::Vec<(ssid, rssi, channel), 10>
    idx,              \* the enumerate() index of the for loop
    ap,               \* the scan result of the current iteration
    uart_line,        \* the line written to uart0 by the current scan attempt
    overflow_checks,  \* build profile: TRUE = arithmetic overflow panics, FALSE = wraps
    scanned           \* number of access points processed so far (bounds the run)

VARIABLES
    \* ---- host: read_serial_port(), app(), render() of hello_test
    ing_pc,        \* ingester: "open" | "read" | "lines" | "lock" | "locked" | "pushed"
                   \*           | "sleep" | "exited" (the function returned Err)
    read_result,   \* what the last port.read() returned: "none" | "data" | "zero"
                   \*           | "timeout" | "error"
    buffer,        \* let mut buffer = String::new(): a sequence of chars
    line,          \* the trimmed line of the current while iteration
    mutex,         \* holder of the Mutex<AppState>: "free" | "ingester" | "consumer"
    latest_data,   \* AppState.latest_data: Option<Esp32Data>
    messages,      \* AppState.messages: Vec<String>
    port_name,     \* AppState.port_name
    con_pc,        \* consumer: "draw" | "render" | "poll" | "quit"
    stream,        \* history: every byte the port has delivered, in order
    handed,        \* history: every line handed to serde_json::from_str, in order
    pushed         \* history: every entry pushed to messages, in order

hostVars == <<ing_pc, read_result, buffer, line, mutex, latest_data, messages,
              port_name, con_pc, stream, handed, pushed>>

sensorVars == <<counter, baseline_rssi, baseline_ssid, s_pc, motion_detected,
                rssi_values, idx, ap, uart_line, overflow_checks, scanned>>

VARIABLES
    \* ---- sensor: the pacing of the scan loop, in milliseconds
    clock,         \* the time Instant::now() would return
    now,           \* let now = Instant::now() of the current loop iteration
    last_scan,     \* let mut last_scan
    t_pc,          \* "top" (loop head) | "scan" (inside scan_with_config and the match)
                   \*           | "delay" (the busy-wait at the end of the iteration)
    started        \* history: when the latest scan attempt started, None before the first

timeVars == <<clock, now, last_scan, t_pc, started>>

VARIABLES
    \* ---- one function of the program applied to drawn inputs
    f_pc,          \* "idle" or the position of the application
    f_in,          \* the inputs
    f_out          \* the result

pureVars == <<f_pc, f_in, f_out>>

vars == <<sensorVars, hostVars, timeVars, pureVars>>

(***************************************************************************)
(* Fixed-width arithmetic.                                                 *)
(***************************************************************************)
WrapI8(x) == ((x + 128) % 256) - 128
WrapI16(x) == ((x + 32768) % 65536) - 32768
InI8(x) == x >= -128 /\ x <= 127

\* Rust's `/` on integers truncates toward zero
TruncDiv(a, b) == IF a >= 0 THEN a \div b ELSE -((-a) \div b)

AbsInt(x) == IF x < 0 THEN -x ELSE x

\* heapless::String::<32>::try_from(ssid_str).unwrap_or_default()
SsidOwned(name) == IF name <= SsidCap THEN name ELSE 0

\* (rssi - baseline_rssi[bidx]).abs() on i8, wrapping build
RssiDelta(rssi, base) == WrapI8(AbsInt(WrapI8(rssi - base)))

\* the same expression overflows (subtraction or abs of i8::MIN)
DeltaOverflows(rssi, base) == ~InI8(rssi - base) \/ (rssi - base) = -128

\* mutant: the warm-up guard is dropped
MotionEvidence_NoWarmup(delta, cnt) == delta > MotionThreshold

\* if rssi_delta > 4 && counter > 5
MotionEvidence(delta, cnt) == delta > MotionThreshold /\ cnt > WarmupCycles

\* mutant: the products are formed in i8, without widening
Ema_NoWiden(base, rssi) ==
    WrapI8(TruncDiv(WrapI8(WrapI8(base * WeightOld) + WrapI8(rssi * WeightNew)), WeightSum))

\* mutant: the division rounds toward minus infinity
Ema_Floor(base, rssi) == WrapI8((base * WeightOld + rssi * WeightNew) \div WeightSum)

\* ((baseline as i16 * 90 + rssi as i16 * 10) / 100) as i8
Ema(base, rssi) ==
    WrapI8(TruncDiv(WrapI16(WrapI16(base * WeightOld) + WrapI16(rssi * WeightNew)),
                    WeightSum))

\* mutant: the search starts at slot 1
FindBaseline_SkipFirst(ssids, ssid) ==
    IF \E i \in 1..(NumSlots - 1) : ssids[i] = ssid
    THEN CHOOSE i \in 1..(NumSlots - 1) :
             ssids[i] = ssid /\ \A j \in 1..(i - 1) : ssids[j] # ssid
    ELSE None

\* for (bidx, bssid) in baseline_ssid.iter().enumerate() { if bs == &ssid_owned .. break }
FindBaseline(ssids, ssid) ==
    IF \E i \in SlotIdx : ssids[i] = ssid
    THEN CHOOSE i \in SlotIdx : ssids[i] = ssid /\ \A j \in 0..(i - 1) : ssids[j] # ssid
    ELSE None

\* mutant: the slot at the scan position is taken even when it is occupied
CanAllocate_Evict(ssids, found, pos) == found = None /\ pos < NumSlots

\* mutant: a name that is already tracked is allocated again
CanAllocate_Again(ssids, found, pos) == pos < NumSlots /\ ssids[pos] = None

\* baseline_idx.is_none() && idx < 10 { if baseline_ssid[idx].is_none() {
CanAllocate(ssids, found, pos) == found = None /\ pos < NumSlots /\ ssids[pos] = None

\* mutant: only tracked access points are collected for output
Echo_TrackedOnly(values, result, baseline_idx) ==
    IF baseline_idx = None THEN values ELSE Append(values, result)

\* let _ = rssi_values.push((ssid_str, rssi, ap.channel))
Echo(values, result, baseline_idx) ==
    IF Len(values) < TakeLimit THEN Append(values, result) ELSE values

(***************************************************************************)
(* Sensor actions.                                                         *)
(***************************************************************************)
NoAp == [ssid |-> None, rssi |-> 0, ch |-> 0]
NoLine == [type |-> "none"]
StatusLine == [type |-> "status"]
ErrorLine == [type |-> "error"]
TelemetryLine(c, m, aps) == [type |-> "telemetry", counter |-> c, motion |-> m, aps |-> aps]

SensorInit ==
    /\ counter = 0
    /\ baseline_rssi = [i \in SlotIdx |-> BaselineInit]
    /\ baseline_ssid = [i \in SlotIdx |-> None]
    /\ s_pc = "loop"
    /\ motion_detected = FALSE
    /\ rssi_values = <<>>
    /\ idx = 0
    /\ ap = NoAp
    /\ uart_line = StatusLine
    /\ overflow_checks \in BOOLEAN
    /\ scanned = 0

\* Ok(scan_results) => { let mut motion_detected = false; let mut rssi_values = Vec::new();
ScanOk ==
    /\ s_pc = "loop"
    /\ counter < MaxCounter
    /\ s_pc' = "aps"
    /\ motion_detected' = FALSE
    /\ rssi_values' = <<>>
    /\ idx' = 0
    /\ ap' = NoAp
    /\ uart_line' = NoLine
    /\ UNCHANGED <<counter, baseline_rssi, baseline_ssid, overflow_checks, scanned>>

\* one iteration of `for (idx, ap) in scan_results.iter().take(10).enumerate()`
ProcessAp(result) ==
    /\ s_pc = "aps"
    /\ idx < TakeLimit
    /\ ap' = result
    /\ LET rssi == result.rssi
           ssid_owned == SsidOwned(result.ssid)
           found == FindBaseline(baseline_ssid, ssid_owned)
           alloc == CanAllocate(baseline_ssid, found, idx)
           ssid1 == IF alloc THEN [baseline_ssid EXCEPT ![idx] = ssid_owned]
                    ELSE baseline_ssid
           rssi1 == IF alloc THEN [baseline_rssi EXCEPT ![idx] = rssi]
                    ELSE baseline_rssi
           baseline_idx == IF alloc THEN idx ELSE found
       IN IF baseline_idx # None /\ overflow_checks
             /\ DeltaOverflows(rssi, rssi1[baseline_idx])
          THEN \* attempt to subtract with overflow: panic handler loops forever
               /\ s_pc' = "panicked"
               /\ baseline_ssid' = ssid1
               /\ baseline_rssi' = rssi1
               /\ UNCHANGED <<counter, motion_detected, rssi_values, idx, uart_line,
                              overflow_checks>>
          ELSE /\ baseline_ssid' = ssid1
               /\ IF baseline_idx # None
                  THEN /\ motion_detected' =
                            (motion_detected
                             \/ MotionEvidence(RssiDelta(rssi, rssi1[baseline_idx]), counter))
                       /\ baseline_rssi' =
                            [rssi1 EXCEPT ![baseline_idx] = Ema(rssi1[baseline_idx], rssi)]
                  ELSE /\ motion_detected' = motion_detected
                       /\ baseline_rssi' = rssi1
               /\ rssi_values' = Echo(rssi_values, result, baseline_idx)
               /\ idx' = idx + 1
               /\ UNCHANGED <<counter, s_pc, uart_line, overflow_checks>>

\* write!(uart0, "{\"counter\":..") .. writeln!(uart0, "]}"); counter = counter.wrapping_add(1)
EmitTelemetry ==
    /\ s_pc = "aps"
    /\ uart_line' = TelemetryLine(counter, IF motion_detected THEN 1 ELSE 0, rssi_values)
    \* wrapping_add wraps at 2^32, far beyond MaxCounter
    /\ counter' = counter + 1
    /\ s_pc' = "loop"
    \* motion_detected and rssi_values go out of scope with the match arm
    /\ motion_detected' = FALSE
    /\ rssi_values' = <<>>
    /\ idx' = 0
    /\ ap' = NoAp
    /\ UNCHANGED <<baseline_rssi, baseline_ssid, overflow_checks, scanned>>

\* mutant: a failed scan counts as a cycle
ScanFail_CountsCycle ==
    /\ s_pc = "loop"
    /\ counter < MaxCounter
    /\ uart_line' = [type |-> "error"]
    /\ counter' = counter + 1
    /\ UNCHANGED <<baseline_rssi, baseline_ssid, s_pc, motion_detected,
                   rssi_values, idx, ap, overflow_checks, scanned>>

\* Err(_) => writeln!(uart0, "{\"error\":\"scan_failed\"}")
ScanFail ==
    /\ s_pc = "loop"
    /\ uart_line' = ErrorLine
    /\ UNCHANGED <<counter, baseline_rssi, baseline_ssid, s_pc, motion_detected,
                   rssi_values, idx, ap, overflow_checks, scanned>>

Observations == [ssid : Names, rssi : Signals, ch : Channels]

ScanAp ==
    \E result \in Observations :
        /\ idx < MaxScanLen
        /\ scanned < MaxObs
        /\ ProcessAp(result)
        /\ scanned' = scanned + 1

(***************************************************************************)
(* The full-table sensor specification: ten "home" networks, network k at   *)
(* scan position k-1 with a steady signal, and an eleventh network that     *)
(* can take any one position of a scan.                                     *)
(***************************************************************************)
HomeAp(pos) == [ssid |-> pos + 1, rssi |-> -40, ch |-> 1]
EleventhAp == [ssid |-> NumSlots + 1, rssi |-> 88, ch |-> 6]

FullScanAp ==
    \/ /\ ProcessAp(HomeAp(idx))
       /\ UNCHANGED scanned
    \/ /\ \A k \in 1..Len(rssi_values) : rssi_values[k] # EleventhAp
       /\ ProcessAp(EleventhAp)
       /\ UNCHANGED scanned

(***************************************************************************)
(* Host: text on the wire.                                                 *)
(*                                                                         *)
(* A wire symbol is a byte, [kind |-> "byte", v |-> 0..255], or the bytes  *)
(* of one complete ASCII JSON text taken as a unit: a telemetry object     *)
(* (v = counter, m = motion, n = number of aps), the error object, the     *)
(* status banner.  A char is [kind |-> "char", v |-> code point]; a JSON   *)
(* text is the same unit as text.                                          *)
(***************************************************************************)
Byte(b) == [kind |-> "byte", v |-> b, m |-> 0, n |-> 0]
Char(cp) == [kind |-> "char", v |-> cp, m |-> 0, n |-> 0]
TelemetryText(c, mo, k) == [kind |-> "telemetry", v |-> c, m |-> mo, n |-> k]
ErrorText == [kind |-> "error", v |-> 0, m |-> 0, n |-> 0]
StatusText == [kind |-> "status", v |-> 0, m |-> 0, n |-> 0]

Newline == Char(10)
Replacement == Char(65533)

\* UTF-8: the lead byte of a two-byte sequence, a continuation byte
IsLead2(b) == b >= 194 /\ b <= 223
IsCont(b) == b >= 128 /\ b <= 191

\* String::from_utf8_lossy(&read_buf[..n]) for ASCII and two-byte sequences:
\* every byte that is not part of a valid sequence becomes U+FFFD
RECURSIVE FromUtf8Lossy(_)
FromUtf8Lossy(bytes) ==
    IF bytes = <<>> THEN <<>>
    ELSE LET b == Head(bytes) IN
         IF b.kind # "byte" THEN <<b>> \o FromUtf8Lossy(Tail(bytes))
         ELSE IF b.v < 128 THEN <<Char(b.v)>> \o FromUtf8Lossy(Tail(bytes))
         ELSE IF /\ IsLead2(b.v)
                 /\ Len(bytes) >= 2
                 /\ bytes[2].kind = "byte"
                 /\ IsCont(bytes[2].v)
              THEN <<Char((b.v - 192) * 64 + (bytes[2].v - 128))>>
                       \o FromUtf8Lossy(Tail(Tail(bytes)))
              ELSE <<Replacement>> \o FromUtf8Lossy(Tail(bytes))

\* char::is_whitespace, for code points below 256
IsWhitespace(c) == c.kind = "char" /\ c.v \in {9, 10, 11, 12, 13, 32, 133, 160}

\* str::trim()
RECURSIVE TrimStart(_)
TrimStart(str) ==
    IF str # <<>> /\ IsWhitespace(Head(str)) THEN TrimStart(Tail(str)) ELSE str
RECURSIVE TrimEnd(_)
TrimEnd(str) ==
    IF str # <<>> /\ IsWhitespace(str[Len(str)])
    THEN TrimEnd(SubSeq(str, 1, Len(str) - 1))
    ELSE str
Trim(str) == TrimEnd(TrimStart(str))

\* buffer.find('\n'): the position of the first newline, 0 when there is none
Find(str) ==
    IF \E i \in 1..Len(str) : str[i] = Newline
    THEN CHOOSE i \in 1..Len(str) : str[i] = Newline /\ \A j \in 1..(i - 1) : str[j] # Newline
    ELSE 0

\* mutant: the line is taken up to the last newline of the buffer
Find_Last(str) ==
    IF \E i \in 1..Len(str) : str[i] = Newline
    THEN CHOOSE i \in 1..Len(str) :
             str[i] = Newline /\ \A j \in (i + 1)..Len(str) : str[j] # Newline
    ELSE 0

\* serde_json::from_str::<Esp32Data>(&line): Some(data) for a telemetry object
NoData == [some |-> FALSE, counter |-> 0, motion |-> 0, aps |-> 0]
\* mutant: missing fields take their defaults, so the error object decodes
FromStr_Lenient(text) ==
    IF Len(text) = 1 /\ text[1].kind \in {"telemetry", "error"}
    THEN [some |-> TRUE, counter |-> text[1].v, motion |-> text[1].m, aps |-> text[1].n]
    ELSE [some |-> FALSE, counter |-> 0, motion |-> 0, aps |-> 0]

FromStr(text) ==
    IF Len(text) = 1 /\ text[1].kind = "telemetry"
    THEN [some |-> TRUE, counter |-> text[1].v, motion |-> text[1].m, aps |-> text[1].n]
    ELSE NoData

\* mutant: only a motion field above 1 counts as motion
SummaryEntry_AboveOne(data) ==
    [kind |-> "summary", counter |-> data.counter,
     status |-> IF data.motion > 1 THEN "MOTION!" ELSE "still",
     aps |-> data.aps, text |-> <<>>]

\* format!("Counter: {} | {} | {} APs", data.counter, motion_status, data.aps.len())
SummaryEntry(data) ==
    [kind |-> "summary", counter |-> data.counter,
     status |-> IF data.motion > 0 THEN "MOTION!" ELSE "still",
     aps |-> data.aps, text |-> <<>>]

\* format!("Raw: {}", line)
RawEntry(text) == [kind |-> "raw", counter |-> 0, status |-> "", aps |-> 0, text |-> text]

\* mutant: the newest entry is dropped
TrimLog_DropNewest(msgs) ==
    IF Len(msgs) > MaxMessages THEN SubSeq(msgs, 1, Len(msgs) - 1) ELSE msgs

\* if state.messages.len() > 100 { state.messages.remove(0); }
TrimLog(msgs) == IF Len(msgs) > MaxMessages THEN Tail(msgs) ELSE msgs

(***************************************************************************)
(* Host actions.                                                           *)
(***************************************************************************)
HostInit ==
    /\ ing_pc = "open"
    /\ read_result = "none"
    /\ buffer = <<>>
    /\ line = <<>>
    /\ mutex = "free"
    /\ latest_data = NoData
    /\ messages = <<>>
    /\ port_name = "port"
    /\ con_pc = "draw"
    /\ stream = <<>>
    /\ handed = <<>>
    /\ pushed = <<>>

\* the process lives until app() returns
Running == con_pc # "quit"

\* serialport::new(port_name, 115_200).timeout(..).open()?
OpenPort ==
    /\ Running
    /\ ing_pc = "open"
    /\ \/ ing_pc' = "read"
       \/ ing_pc' = "exited"
    /\ UNCHANGED <<read_result, buffer, line, mutex, latest_data, messages, port_name,
                   con_pc, stream, handed, pushed>>

\* port.read(&mut read_buf) returns Ok(n), n > 0:
\* chunk = String::from_utf8_lossy(&read_buf[..n]); buffer.push_str(&chunk)
ReadData(chunk) ==
    /\ Running
    /\ ing_pc = "read"
    /\ Len(chunk) > 0
    /\ Len(chunk) <= ReadBufLen
    /\ read_result' = "data"
    /\ buffer' = buffer \o FromUtf8Lossy(chunk)
    /\ stream' = stream \o chunk
    /\ ing_pc' = "lines"
    /\ UNCHANGED <<line, mutex, latest_data, messages, port_name, con_pc, handed, pushed>>

\* mutant: a read error ends the ingester
AfterReadFailure_Fatal(result) == IF result = "error" THEN "exited" ELSE "sleep"

\* `_ => { thread::sleep(10 ms) }`: the arm taken by Ok(0) and by every Err
AfterReadFailure(result) == "sleep"

\* port.read() returns Ok(0), Err(TimedOut) or any other Err
ReadFail(result) ==
    /\ Running
    /\ ing_pc = "read"
    /\ read_result' = result
    /\ ing_pc' = AfterReadFailure(result)
    /\ UNCHANGED <<buffer, line, mutex, latest_data, messages, port_name, con_pc,
                   stream, handed, pushed>>

\* thread::sleep(Duration::from_millis(10)), then the next loop iteration
Sleep ==
    /\ Running
    /\ ing_pc = "sleep"
    /\ ing_pc' = "read"
    /\ read_result' = "none"
    /\ UNCHANGED <<buffer, line, mutex, latest_data, messages, port_name, con_pc,
                   stream, handed, pushed>>

\* while let Some(line_end) = buffer.find('\n') { line = buffer[..line_end].trim();
\* buffer.drain(..=line_end); if line.is_empty() { continue; }
NextLine ==
    /\ Running
    /\ ing_pc = "lines"
    /\ LET line_end == Find(buffer) IN
       IF line_end = 0
       THEN /\ ing_pc' = "read"
            /\ read_result' = "none"
            /\ UNCHANGED <<buffer, line>>
       ELSE LET trimmed == Trim(SubSeq(buffer, 1, line_end - 1)) IN
            /\ buffer' = SubSeq(buffer, line_end + 1, Len(buffer))
            /\ line' = trimmed
            /\ ing_pc' = IF trimmed = <<>> THEN "lines" ELSE "lock"
            /\ UNCHANGED read_result
    /\ UNCHANGED <<mutex, latest_data, messages, port_name, con_pc, stream, handed, pushed>>

\* mutant: the ingester goes on without the guard
IngesterLock_NoGuard ==
    /\ Running
    /\ ing_pc = "lock"
    /\ ing_pc' = "locked"
    /\ UNCHANGED <<read_result, buffer, line, mutex, latest_data, messages, port_name,
                   con_pc, stream, handed, pushed>>

\* let mut state = state.lock().unwrap()
IngesterLock ==
    /\ Running
    /\ ing_pc = "lock"
    /\ mutex = "free"
    /\ mutex' = "ingester"
    /\ ing_pc' = "locked"
    /\ UNCHANGED <<read_result, buffer, line, latest_data, messages, port_name, con_pc,
                   stream, handed, pushed>>

\* if let Ok(data) = from_str(&line) { messages.push(summary); latest_data = Some(data) }
\* else { messages.push(format!("Raw: {}", line)) }
Store ==
    /\ Running
    /\ ing_pc = "locked"
    /\ handed' = Append(handed, line)
    /\ LET data == FromStr(line)
           entry == IF data.some THEN SummaryEntry(data) ELSE RawEntry(line)
       IN /\ messages' = Append(messages, entry)
          /\ pushed' = Append(pushed, entry)
          /\ latest_data' = IF data.some THEN data ELSE latest_data
    /\ ing_pc' = "pushed"
    /\ UNCHANGED <<read_result, buffer, line, mutex, port_name, con_pc, stream>>

\* mutant: the guard is kept across loop iterations
TrimUnlock_KeepsGuard ==
    /\ Running
    /\ ing_pc = "pushed"
    /\ messages' = TrimLog(messages)
    /\ ing_pc' = "lines"
    /\ UNCHANGED <<read_result, buffer, line, mutex, latest_data, port_name, con_pc, stream,
                   handed, pushed>>

\* if messages.len() > 100 { messages.remove(0) }; the guard drops at the end of the body
TrimUnlock ==
    /\ Running
    /\ ing_pc = "pushed"
    /\ messages' = TrimLog(messages)
    /\ mutex' = "free"
    /\ ing_pc' = "lines"
    /\ UNCHANGED <<read_result, buffer, line, latest_data, port_name, con_pc, stream,
                   handed, pushed>>

\* terminal.draw(|frame| render(frame, state)): let state = state.lock().unwrap()
Draw ==
    /\ con_pc = "draw"
    /\ mutex = "free"
    /\ mutex' = "consumer"
    /\ con_pc' = "render"
    /\ UNCHANGED <<ing_pc, read_result, buffer, line, latest_data, messages, port_name,
                   stream, handed, pushed>>

\* render() returns: the guard drops
RenderDone ==
    /\ con_pc = "render"
    /\ mutex = "consumer"
    /\ mutex' = "free"
    /\ con_pc' = "poll"
    /\ UNCHANGED <<ing_pc, read_result, buffer, line, latest_data, messages, port_name,
                   stream, handed, pushed>>

\* event::poll(100 ms): no key or another key, or 'q' / Esc
Poll ==
    /\ con_pc = "poll"
    /\ \/ con_pc' = "draw"
       \/ con_pc' = "quit"
    /\ UNCHANGED <<ing_pc, read_result, buffer, line, mutex, latest_data, messages,
                   port_name, stream, handed, pushed>>

(***************************************************************************)
(* Specifications.                                                         *)
(***************************************************************************)
\* let mut last_scan = Instant::now(): the clock is read from that instant
TimeInit ==
    /\ clock = 0
    /\ now = 0
    /\ last_scan = 0
    /\ t_pc = "top"
    /\ started = None

\* no function is being applied
PureIdle ==
    /\ f_pc = "idle"
    /\ f_in = <<>>
    /\ f_out = <<>>

Init == SensorInit /\ HostInit /\ TimeInit /\ PureIdle

\* the sensor alone, scans of up to MaxScanLen access points
Next ==
    \/ ScanOk /\ UNCHANGED <<hostVars, timeVars, pureVars>>
    \/ ScanAp /\ UNCHANGED <<hostVars, timeVars, pureVars>>
    \/ EmitTelemetry /\ UNCHANGED <<hostVars, timeVars, pureVars>>
    \/ ScanFail /\ UNCHANGED <<hostVars, timeVars, pureVars>>

Spec == Init /\ [][Next]_vars

\* the sensor alone, ten home networks and an eleventh
NextFull ==
    \/ ScanOk /\ UNCHANGED <<hostVars, timeVars, pureVars>>
    \/ FullScanAp /\ UNCHANGED <<hostVars, timeVars, pureVars>>
    \/ EmitTelemetry /\ UNCHANGED <<hostVars, timeVars, pureVars>>
    \/ ScanFail /\ UNCHANGED <<hostVars, timeVars, pureVars>>

SpecFull == Init /\ [][NextFull]_vars

\* the bytes and texts the byte-level host specification receives
WireAlphabet ==
    {Byte(10), Byte(32), Byte(97), Byte(195), Byte(169),
     TelemetryText(1, 1, 0), TelemetryText(2, 0, 3), ErrorText, StatusText}

Chunks(k) == UNION {[1..len -> WireAlphabet] : len \in 1..k}

ReadFailures == {"zero", "timeout", "error"}

InitHost == SensorInit /\ ~overflow_checks /\ HostInit /\ TimeInit /\ PureIdle

\* a read of the byte-level specification: any chunk that fits the bound
ReadBytes ==
    \E chunk \in Chunks(MaxStreamLen - Len(stream)) : ReadData(chunk)

\* a read of the log specification: the next telemetry line of the sensor, whole
ReadTelemetryLine ==
    /\ Len(stream) < 2 * MaxLogLines
    /\ LET k == Len(stream) \div 2 IN
       ReadData(<<TelemetryText(k, k % 2, k % 11), Byte(10)>>)

ReadFailure == \E result \in ReadFailures : ReadFail(result)

\* the host alone, fed arbitrary bytes in arbitrary chunks
NextHost ==
    \/ OpenPort /\ UNCHANGED <<sensorVars, timeVars, pureVars>>
    \/ ReadBytes /\ UNCHANGED <<sensorVars, timeVars, pureVars>>
    \/ ReadFailure /\ UNCHANGED <<sensorVars, timeVars, pureVars>>
    \/ Sleep /\ UNCHANGED <<sensorVars, timeVars, pureVars>>
    \/ NextLine /\ UNCHANGED <<sensorVars, timeVars, pureVars>>
    \/ IngesterLock /\ UNCHANGED <<sensorVars, timeVars, pureVars>>
    \/ Store /\ UNCHANGED <<sensorVars, timeVars, pureVars>>
    \/ TrimUnlock /\ UNCHANGED <<sensorVars, timeVars, pureVars>>
    \/ Draw /\ UNCHANGED <<sensorVars, timeVars, pureVars>>
    \/ RenderDone /\ UNCHANGED <<sensorVars, timeVars, pureVars>>
    \/ Poll /\ UNCHANGED <<sensorVars, timeVars, pureVars>>

SpecHost == InitHost /\ [][NextHost]_vars

\* the host alone, fed the sensor's telemetry lines one per read
NextLog ==
    \/ OpenPort /\ UNCHANGED <<sensorVars, timeVars, pureVars>>
    \/ ReadTelemetryLine /\ UNCHANGED <<sensorVars, timeVars, pureVars>>
    \/ ReadFailure /\ UNCHANGED <<sensorVars, timeVars, pureVars>>
    \/ Sleep /\ UNCHANGED <<sensorVars, timeVars, pureVars>>
    \/ NextLine /\ UNCHANGED <<sensorVars, timeVars, pureVars>>
    \/ IngesterLock /\ UNCHANGED <<sensorVars, timeVars, pureVars>>
    \/ Store /\ UNCHANGED <<sensorVars, timeVars, pureVars>>
    \/ TrimUnlock /\ UNCHANGED <<sensorVars, timeVars, pureVars>>
    \/ Draw /\ UNCHANGED <<sensorVars, timeVars, pureVars>>
    \/ RenderDone /\ UNCHANGED <<sensorVars, timeVars, pureVars>>
    \/ Poll /\ UNCHANGED <<sensorVars, timeVars, pureVars>>

SpecLog == InitHost /\ [][NextLog]_vars

(***************************************************************************)
(* Vocabulary of the sensor claims.                                        *)
(***************************************************************************)
\* the slots that hold a name
HeldBy(ssids, name) == {i \in SlotIdx : ssids[i] = name}
Occupied(ssids) == {i \in SlotIdx : ssids[i] # None}
TableFull(ssids) == Cardinality(Occupied(ssids)) = 10

\* this step completes the loop iteration for one observation, ap'
Iterated == s_pc = "aps" /\ idx' = idx + 1

\* this step writes the telemetry line of a successful scan
Emitted == s_pc = "aps" /\ s_pc' = "loop"

\* the baseline of the slot of observation o just before its update: the
\* stored one when the name was matched, the signal itself when the slot
\* was allocated for it
BaselineBefore(o, i) == IF baseline_ssid[i] = o.ssid THEN baseline_rssi[i] ELSE o.rssi

\* |signal - baseline| > 4 for the slot the observation has after the step
TrueEvidence(o) ==
    \E i \in SlotIdx :
        /\ baseline_ssid'[i] = o.ssid
        /\ AbsInt(o.rssi - BaselineBefore(o, i)) > 4

(***************************************************************************)
(* C1. Warm-up guard: a telemetry line whose counter is 0..5 carries        *)
(* motion 0, whatever the signals and the baselines were.                   *)
(***************************************************************************)
C1_WarmupNeverReportsMotion ==
    (uart_line.type = "telemetry" /\ uart_line.counter <= 5) => uart_line.motion = 0

\* a line with counter 5 one of whose access points is still more than 4
\* away from the baseline of its slot after the update
C1_Witness ==
    /\ uart_line.type = "telemetry"
    /\ uart_line.counter = 5
    /\ uart_line.motion = 0
    /\ \E k \in 1..Len(uart_line.aps) : \E i \in SlotIdx :
           /\ baseline_ssid[i] = uart_line.aps[k].ssid
           /\ AbsInt(uart_line.aps[k].rssi - baseline_rssi[i]) > 4

(***************************************************************************)
(* C2. With counter > 5 the motion field of the emitted line is 1 exactly   *)
(* when some observation of the cycle has a slot and differs from that      *)
(* slot's baseline (as it stood before the observation's update) by more    *)
(* than 4.  Stated per step: the flag starts FALSE, each completed          *)
(* observation ORs its evidence into it, the line carries the flag.         *)
(***************************************************************************)
C2_MotionIsOrOfEvidence ==
    [][/\ (s_pc = "loop" /\ s_pc' = "aps") => motion_detected' = FALSE
       /\ (Iterated /\ counter > 5) =>
              motion_detected' = (motion_detected \/ TrueEvidence(ap'))
       /\ Emitted => uart_line'.motion = (IF motion_detected THEN 1 ELSE 0)]_vars

(***************************************************************************)
(* C3. Baseline update: after an observation with a slot, the slot holds    *)
(* (b*90 + s*10) / 100 truncated toward zero, b the baseline before the     *)
(* update and s the signal; every other slot keeps its baseline, and no     *)
(* other step changes a baseline.                                           *)
(***************************************************************************)
C3_BaselineUpdate ==
    [][IF Iterated
       THEN \A i \in SlotIdx :
                baseline_rssi'[i] =
                    IF baseline_ssid'[i] = ap'.ssid
                    THEN TruncDiv(BaselineBefore(ap', i) * 90 + ap'.rssi * 10, 100)
                    ELSE baseline_rssi[i]
       ELSE baseline_rssi' = baseline_rssi]_vars

\* baseline -40 and signal -30 gave -39
C3_Witness ==
    /\ s_pc = "aps"
    /\ ap.rssi = -30
    /\ \E i \in SlotIdx : baseline_ssid[i] = ap.ssid /\ baseline_rssi[i] = -39

(***************************************************************************)
(* C4. Cold-start allocation: an observation whose name matches no          *)
(* occupied slot, seen while fewer than 10 slots are occupied, takes a      *)
(* slot that was free, with the signal as its baseline, and adds no motion  *)
(* evidence.                                                                *)
(***************************************************************************)
C4_ColdStartAllocation ==
    [][(/\ Iterated
        /\ HeldBy(baseline_ssid, ap'.ssid) = {}
        /\ Cardinality(Occupied(baseline_ssid)) < 10)
       => /\ \E i \in SlotIdx :
                 /\ baseline_ssid[i] = None
                 /\ baseline_ssid'[i] = ap'.ssid
                 /\ baseline_rssi'[i] = ap'.rssi
          /\ motion_detected' = motion_detected]_vars

(***************************************************************************)
(* C5. Capacity exhaustion: with all 10 slots occupied the table of names   *)
(* never changes again; an observation whose name matches no slot changes   *)
(* no baseline and adds no motion evidence, and the telemetry line of the   *)
(* cycle lists every observation of the scan, in scan order, as reported.   *)
(***************************************************************************)
C5_CapacityExhaustion ==
    [][/\ TableFull(baseline_ssid) => baseline_ssid' = baseline_ssid
       /\ (Iterated /\ TableFull(baseline_ssid) /\ HeldBy(baseline_ssid, ap'.ssid) = {})
              => /\ baseline_rssi' = baseline_rssi
                 /\ motion_detected' = motion_detected
                 /\ rssi_values' = Append(rssi_values, ap')
                 /\ Len(rssi_values') = idx'
       /\ Emitted => uart_line'.aps = rssi_values]_vars

\* a line of a cycle past the warm-up that lists the eleventh network while
\* ten other names hold the slots
C5_Witness ==
    /\ TableFull(baseline_ssid)
    /\ HeldBy(baseline_ssid, EleventhAp.ssid) = {}
    /\ uart_line.type = "telemetry"
    /\ uart_line.counter > 5
    /\ \E k \in 1..Len(uart_line.aps) : uart_line.aps[k] = EleventhAp

(***************************************************************************)
(* C6. Slot-name uniqueness: no two occupied slots hold the same name.      *)
(***************************************************************************)
C6_SlotNamesUnique ==
    \A i \in SlotIdx : \A j \in SlotIdx :
        (i # j /\ baseline_ssid[i] # None) => baseline_ssid[i] # baseline_ssid[j]

\* two tracked names come back with their scan positions swapped
C6_Witness ==
    /\ s_pc = "aps"
    /\ Len(rssi_values) = 2
    /\ baseline_ssid[0] # None
    /\ baseline_ssid[1] # None
    /\ rssi_values[1].ssid = baseline_ssid[1]
    /\ rssi_values[2].ssid = baseline_ssid[0]

(***************************************************************************)
(* C7. Slots are never evicted or reassigned: a slot that holds a name      *)
(* holds the same name after every step.                                    *)
(***************************************************************************)
C7_SlotsNeverReassigned ==
    [][\A i \in SlotIdx : baseline_ssid[i] # None => baseline_ssid'[i] = baseline_ssid[i]]_vars

\* after several cycles, another name was observed at the
\* position of an occupied slot, whose baseline has moved meanwhile
C7_Witness ==
    /\ s_pc = "aps"
    /\ counter >= 2
    /\ Len(rssi_values) = 1
    /\ baseline_ssid[0] # None
    /\ baseline_ssid[0] # rssi_values[1].ssid
    /\ baseline_rssi[0] \notin Signals

(***************************************************************************)
(* Vocabulary of the host claims.                                          *)
(***************************************************************************)
\* the position of the first newline of a text, 0 when it has none
FirstNewline(text) ==
    IF \E i \in 1..Len(text) : text[i] = Newline
    THEN CHOOSE i \in 1..Len(text) :
             text[i] = Newline /\ \A j \in 1..(i - 1) : text[j] # Newline
    ELSE 0

\* the non-empty, trimmed, newline-terminated segments of a text
RECURSIVE LinesOf(_)
LinesOf(text) ==
    LET e == FirstNewline(text) IN
    IF e = 0 THEN <<>>
    ELSE LET seg == Trim(SubSeq(text, 1, e - 1))
             rest == LinesOf(SubSeq(text, e + 1, Len(text)))
         IN IF seg = <<>> THEN rest ELSE <<seg>> \o rest

\* the ingester has processed every byte it has read
Drained == ing_pc \in {"read", "sleep"}

\* the last k entries of a sequence
LastEntries(seq, k) == SubSeq(seq, Len(seq) - k + 1, Len(seq))

Min(a, b) == IF a < b THEN a ELSE b

C9_BoundedFifoLog ==
    mutex # "ingester" =>
        /\ Len(messages) <= 100
        /\ messages = LastEntries(pushed, Min(Len(pushed), 100))

\* the consumer reads the log after 105 appends: it holds entries 6..105
C9_Witness ==
    /\ mutex = "consumer"
    /\ Len(pushed) = 105
    /\ Len(messages) = 100
    /\ messages[1] = pushed[6]
    /\ messages[100] = pushed[105]

WellFormed(text) == Len(text) = 1 /\ text[1].kind = "telemetry"

Decoding == ing_pc = "locked" /\ ing_pc' = "pushed"

C11_DecodeFailureIsLogged ==
    [][/\ ing_pc = "locked" => line # <<>>
       /\ (Decoding /\ ~WellFormed(line)) =>
              /\ messages' = Append(messages, RawEntry(line))
              /\ pushed' = Append(pushed, RawEntry(line))
              /\ latest_data' = latest_data
              /\ port_name' = port_name
       /\ (ing_pc = "pushed" /\ ing_pc' # "pushed") =>
              /\ ing_pc' = "lines"
              /\ mutex' = "free"
              /\ UNCHANGED <<latest_data, port_name, pushed, buffer>>]_vars

C11_Witness ==
    /\ ing_pc = "pushed"
    /\ line = <<ErrorText>>
    /\ latest_data.some
    /\ messages[Len(messages)] = RawEntry(<<ErrorText>>)

(***************************************************************************)
(* The telemetry codec: the write! calls of the sensor that produce a      *)
(* telemetry line, and serde_json::from_str::<Esp32Data> of the host.       *)
(*                                                                         *)
(* A line is a sequence of tokens.  Chr(c) is one character of a string     *)
(* or one of its two quotes; Lit(text) is a run of the format strings       *)
(* taken as a unit; Num(k) is the decimal text of k.                        *)
(***************************************************************************)
Lit(text) == [t |-> "lit", s |-> text, n |-> 0]
Chr(c) == [t |-> "chr", s |-> c, n |-> 0]
Num(k) == [t |-> "num", s |-> "", n |-> k]

\* write!(uart0, "{{\"ssid\":\"{}\",\"rssi\":{},\"ch\":{}}}", ssid, rssi, channel):
\* {} writes the name as it is
EncodeAp(a) ==
    <<Lit("{\"ssid\":"), Chr("\"")>>
        \o [i \in 1..Len(a.ssid) |-> Chr(a.ssid[i])]
        \o <<Chr("\""), Lit(",\"rssi\":"), Num(a.rssi), Lit(",\"ch\":"), Num(a.ch), Lit("}")>>

\* for (i, ..) in rssi_values.iter().enumerate() { if i > 0 { write!(uart0, ",") } .. }
RECURSIVE EncodeAps(_, _)
EncodeAps(aps, i) ==
    IF i > Len(aps) THEN <<>>
    ELSE (IF i > 1 THEN <<Lit(",")>> ELSE <<>>) \o EncodeAp(aps[i]) \o EncodeAps(aps, i + 1)

\* write!(uart0, "{{\"counter\":{},\"motion\":{},\"aps\":[", counter,
\*        if motion_detected { 1 } else { 0 }) .. writeln!(uart0, "]}}")
Encode(rec) ==
    <<Lit("{\"counter\":"), Num(rec.counter),
      Lit(",\"motion\":"), Num(IF rec.motion THEN 1 ELSE 0), Lit(",\"aps\":[")>>
        \o EncodeAps(rec.aps, 1) \o <<Lit("]}")>>

\* the token at position i, an empty run past the end of the line
At(toks, i) == IF i >= 1 /\ i <= Len(toks) THEN toks[i] ELSE Lit("")

\* the escapes of a JSON string that stand for the character after the backslash
\* (\b \f \n \r \t \u stand for other characters)
SelfEscapes == {"\"", "\\", "/"}

NoString == [ok |-> FALSE, val |-> <<>>, next |-> 0]

\* serde_json reads a string: after the opening quote, characters up to the first
\* quote that no backslash escapes; a backslash takes the next character with it
\* and must form an escape.  A string that runs past its closing quote reads on
\* into the next format run, ends at that run's first quote and is followed by a
\* field name where `,` or `}` must stand: the decode fails.
RECURSIVE LexChars(_, _, _)
LexChars(toks, j, acc) ==
    LET c == At(toks, j) IN
    IF c.t # "chr" THEN NoString
    ELSE IF c.s = "\"" THEN [ok |-> TRUE, val |-> acc, next |-> j + 1]
    ELSE IF c.s = "\\"
         THEN IF At(toks, j + 1).t = "chr" /\ At(toks, j + 1).s \in SelfEscapes
              THEN LexChars(toks, j + 2, Append(acc, At(toks, j + 1).s))
              ELSE NoString
         ELSE LexChars(toks, j + 1, Append(acc, c.s))

LexString(toks, i) ==
    IF At(toks, i) = Chr("\"") THEN LexChars(toks, i + 1, <<>>) ELSE NoString

NoAccessPoint == [ok |-> FALSE, val |-> <<>>, next |-> 0]

\* one AccessPoint { ssid: String, rssi: i8, ch: u8 }
DecodeAp(toks, i) ==
    LET str == LexString(toks, i + 1)
        k == str.next
    IN IF /\ At(toks, i) = Lit("{\"ssid\":")
          /\ str.ok
          /\ At(toks, k) = Lit(",\"rssi\":")
          /\ At(toks, k + 1).t = "num" /\ InI8(At(toks, k + 1).n)
          /\ At(toks, k + 2) = Lit(",\"ch\":")
          /\ At(toks, k + 3).t = "num" /\ At(toks, k + 3).n \in 0..255
          /\ At(toks, k + 4) = Lit("}")
       THEN [ok |-> TRUE,
             val |-> [ssid |-> str.val, rssi |-> At(toks, k + 1).n, ch |-> At(toks, k + 3).n],
             next |-> k + 5]
       ELSE NoAccessPoint

NoRecord == [ok |-> FALSE, counter |-> 0, motion |-> 0, aps |-> <<>>]

\* aps: Vec<AccessPoint>, up to the closing "]}" that ends the line
RECURSIVE DecodeAps(_, _, _)
DecodeAps(toks, i, acc) ==
    IF At(toks, i) = Lit("]}")
    THEN [ok |-> i = Len(toks), val |-> acc, next |-> i + 1]
    ELSE LET first == IF acc = <<>> THEN i ELSE i + 1
             one == DecodeAp(toks, first)
         IN IF (acc # <<>> => At(toks, i) = Lit(",")) /\ one.ok
            THEN DecodeAps(toks, one.next, Append(acc, one.val))
            ELSE NoAccessPoint

\* serde_json::from_str::<Esp32Data>(&line) on a line of the sensor
Decode(toks) ==
    LET aps == DecodeAps(toks, 6, <<>>) IN
    IF /\ At(toks, 1) = Lit("{\"counter\":")
       /\ At(toks, 2).t = "num" /\ At(toks, 2).n >= 0
       /\ At(toks, 3) = Lit(",\"motion\":")
       /\ At(toks, 4).t = "num" /\ At(toks, 4).n \in 0..255
       /\ At(toks, 5) = Lit(",\"aps\":[")
       /\ aps.ok
    THEN [ok |-> TRUE, counter |-> At(toks, 2).n, motion |-> At(toks, 4).n, aps |-> aps.val]
    ELSE NoRecord

\* the characters of the names the codec specification encodes
CodecChars == {"a", "\"", "\\"}
SsidStrings == UNION {[1..n -> CodecChars] : n \in 0..MaxSsidLen}
CodecAps == [ssid : SsidStrings, rssi : {-128, 127}, ch : {0, 255}]
CodecRecords ==
    [counter : {0, 2147483647}, motion : BOOLEAN,
     aps : UNION {[1..n -> CodecAps] : n \in 0..MaxCodecAps}]

InitCodec ==
    /\ SensorInit /\ ~overflow_checks /\ HostInit /\ TimeInit
    /\ f_pc = "record"
    /\ f_in \in CodecRecords
    /\ f_out = <<>>

\* the sensor writes the line of the record
CodecEncode ==
    /\ f_pc = "record"
    /\ f_out' = Encode(f_in)
    /\ f_pc' = "line"
    /\ UNCHANGED f_in

\* the host decodes the line
CodecDecode ==
    /\ f_pc = "line"
    /\ f_out' = Decode(f_out)
    /\ f_pc' = "decoded"
    /\ UNCHANGED f_in

NextCodec ==
    \/ CodecEncode /\ UNCHANGED <<sensorVars, hostVars, timeVars>>
    \/ CodecDecode /\ UNCHANGED <<sensorVars, hostVars, timeVars>>

SpecCodec == InitCodec /\ [][NextCodec]_vars

(***************************************************************************)
(* C12. Codec round trip: decoding the line the sensor emits for a record   *)
(* succeeds and yields the record's counter, its motion flag as 0 or 1 and  *)
(* its access points, in order, with the same name, signal and channel.     *)
(***************************************************************************)
C12_RoundTrip ==
    f_pc = "decoded" =>
        /\ f_out.ok
        /\ f_out.counter = f_in.counter
        /\ f_out.motion = (IF f_in.motion THEN 1 ELSE 0)
        /\ f_out.aps = f_in.aps

(***************************************************************************)
(* C13. Scan failure is recovered locally: a scan attempt that fails        *)
(* writes the error line and no telemetry line, changes neither the         *)
(* counter nor any baseline slot, and leaves the sensor at the head of its  *)
(* loop.  A step from the loop head to the loop head is a failed attempt:   *)
(* a successful one enters the for loop over the scan results.              *)
(***************************************************************************)
C13_ScanFailureIsLocal ==
    [][(s_pc = "loop" /\ s_pc' = "loop") =>
           /\ uart_line' = [type |-> "error"]
           /\ UNCHANGED <<counter, baseline_rssi, baseline_ssid>>]_vars

\* a scan failed after cycles that counted and filled a slot
C13_Witness ==
    /\ uart_line = [type |-> "error"]
    /\ s_pc = "loop"
    /\ counter >= 1
    /\ Occupied(baseline_ssid) # {}

(***************************************************************************)
(* The outage specification: the host receives OutageStart telemetry lines  *)
(* and then the error line of every failed scan, each line in one read.     *)
(***************************************************************************)
ReadOutageLine ==
    /\ Len(stream) < 2 * MaxLogLines
    /\ LET k == Len(stream) \div 2 IN
       ReadData(<<IF k < OutageStart THEN TelemetryText(k, k % 2, k % 11) ELSE ErrorText,
                  Byte(10)>>)

NextOutage ==
    \/ OpenPort /\ UNCHANGED <<sensorVars, timeVars, pureVars>>
    \/ ReadOutageLine /\ UNCHANGED <<sensorVars, timeVars, pureVars>>
    \/ ReadFailure /\ UNCHANGED <<sensorVars, timeVars, pureVars>>
    \/ Sleep /\ UNCHANGED <<sensorVars, timeVars, pureVars>>
    \/ NextLine /\ UNCHANGED <<sensorVars, timeVars, pureVars>>
    \/ IngesterLock /\ UNCHANGED <<sensorVars, timeVars, pureVars>>
    \/ Store /\ UNCHANGED <<sensorVars, timeVars, pureVars>>
    \/ TrimUnlock /\ UNCHANGED <<sensorVars, timeVars, pureVars>>
    \/ Draw /\ UNCHANGED <<sensorVars, timeVars, pureVars>>
    \/ RenderDone /\ UNCHANGED <<sensorVars, timeVars, pureVars>>
    \/ Poll /\ UNCHANGED <<sensorVars, timeVars, pureVars>>

SpecOutage == InitHost /\ [][NextOutage]_vars

\* the consumer holds the guard: what render() reads
Snapshot == mutex = "consumer"

\* the position of the most recent summary entry, 0 when there is none
LastSummary(entries) ==
    IF \E i \in 1..Len(entries) : entries[i].kind = "summary"
    THEN CHOOSE i \in 1..Len(entries) :
             /\ entries[i].kind = "summary"
             /\ \A j \in (i + 1)..Len(entries) : entries[j].kind # "summary"
    ELSE 0

(***************************************************************************)
(* C14, as claimed. No partial update is observable: in every snapshot the  *)
(* consumer reads, if latest_data holds a record then the most recent       *)
(* summary entry of the log is the summary of that record, and the log has  *)
(* at most 100 entries.                                                     *)
(***************************************************************************)
C14_SummaryInLog ==
    Snapshot =>
        /\ Len(messages) <= 100
        /\ latest_data.some =>
               /\ LastSummary(messages) > 0
               /\ messages[LastSummary(messages)] = SummaryEntry(latest_data)

(***************************************************************************)
(* C14, amended. In every snapshot the consumer reads, the log has at most  *)
(* 100 entries; latest_data holds a record exactly when a summary entry     *)
(* was ever appended, and then the most recent summary entry appended is    *)
(* the summary of that record; that entry is in the log, as its most        *)
(* recent summary entry, while fewer than 100 entries were appended after   *)
(* it, and afterwards the log holds no summary entry at all.                *)
(***************************************************************************)
C14_SnapshotConsistent ==
    Snapshot =>
        LET i == LastSummary(pushed)
            age == Len(pushed) - i
        IN /\ Len(messages) <= 100
           /\ latest_data.some = (i > 0)
           /\ i > 0 => pushed[i] = SummaryEntry(latest_data)
           /\ (i > 0 /\ age < 100) =>
                  /\ LastSummary(messages) = Len(messages) - age
                  /\ messages[Len(messages) - age] = SummaryEntry(latest_data)
           /\ (i > 0 /\ age >= 100) => LastSummary(messages) = 0

\* the consumer reads a record whose summary entry the log has dropped
C14_Witness ==
    /\ Snapshot
    /\ latest_data.some
    /\ Len(messages) = 100
    /\ LastSummary(messages) = 0

(***************************************************************************)
(* The arithmetic specification: the delta and the baseline update of one   *)
(* loop iteration (main.rs:108-115), applied to every signal and every      *)
(* baseline of the i8 range, in both build profiles.                        *)
(***************************************************************************)
I8 == -128..127

InitArith ==
    /\ SensorInit /\ HostInit /\ TimeInit
    /\ f_pc = "args"
    /\ f_in \in [rssi : I8, base : I8]
    /\ f_out = [panic |-> FALSE, value |-> 0]

\* let rssi_delta = (rssi - baseline_rssi[bidx]).abs()
ArithDelta ==
    /\ f_pc = "args"
    /\ f_out' = IF overflow_checks /\ DeltaOverflows(f_in.rssi, f_in.base)
                THEN [panic |-> TRUE, value |-> 0]
                ELSE [panic |-> FALSE, value |-> RssiDelta(f_in.rssi, f_in.base)]
    /\ f_pc' = "delta"
    /\ UNCHANGED f_in

\* baseline_rssi[bidx] = ((baseline_rssi[bidx] as i16 * 90 + rssi as i16 * 10) / 100) as i8
ArithEma ==
    /\ f_pc = "delta"
    /\ ~f_out.panic
    /\ f_out' = [panic |-> FALSE, value |-> Ema(f_in.base, f_in.rssi)]
    /\ f_pc' = "ema"
    /\ UNCHANGED f_in

NextArith ==
    \/ ArithDelta /\ UNCHANGED <<sensorVars, hostVars, timeVars>>
    \/ ArithEma /\ UNCHANGED <<sensorVars, hostVars, timeVars>>

SpecArith == InitArith /\ [][NextArith]_vars

(***************************************************************************)
(* C15. The delta does not overflow: for every signal and baseline of the   *)
(* i8 range the delta compared against the threshold is |signal -           *)
(* baseline|, and computing it does not abort.                              *)
(***************************************************************************)
C15_DeltaIsExact ==
    f_pc = "delta" =>
        /\ ~f_out.panic
        /\ f_out.value = AbsInt(f_in.rssi - f_in.base)

Max(a, b) == IF a > b THEN a ELSE b

(***************************************************************************)
(* C20. The baseline stays between its inputs: the new baseline n of an     *)
(* update with old baseline b and signal s satisfies min(b, s) <= n <=      *)
(* max(b, s); it is the quotient itself, which lies in -128..127, so the    *)
(* narrowing to i8 changes nothing; a signal equal to the baseline leaves   *)
(* the baseline as it is.                                                   *)
(***************************************************************************)
C20_BaselineBetweenInputs ==
    f_pc = "ema" =>
        LET b == f_in.base
            s == f_in.rssi
            n == f_out.value
        IN /\ Min(b, s) <= n
           /\ n <= Max(b, s)
           /\ InI8(n)
           /\ n = TruncDiv(b * 90 + s * 10, 100)
           /\ s = b => n = b

\* the update of the lowest baseline with the highest signal
C20_Witness ==
    /\ f_pc = "ema"
    /\ f_in.base = -128
    /\ f_in.rssi = 127
    /\ f_out.value = -102

(***************************************************************************)
(* The steady-signal specification: one tracked name is observed with the   *)
(* same signal in every cycle, past the warm-up, from any baseline.  A      *)
(* cycle is the loop iteration for the observation (main.rs:106-116) and    *)
(* the emission of the line (main.rs:123-139).  f_in.base is the slot's     *)
(* baseline, f_out the motion evidence of the cycle.  The firmware loop     *)
(* never ends, hence the fairness.                                          *)
(***************************************************************************)
InitSteady ==
    /\ SensorInit /\ ~overflow_checks /\ HostInit /\ TimeInit
    /\ f_pc = "observe"
    /\ f_in \in [rssi : I8, base : I8]
    /\ f_out = FALSE

SteadyObserve ==
    /\ f_pc = "observe"
    /\ f_out' = MotionEvidence(RssiDelta(f_in.rssi, f_in.base), WarmupCycles + 1)
    /\ f_in' = [f_in EXCEPT !.base = Ema(f_in.base, f_in.rssi)]
    /\ f_pc' = "emit"

SteadyEmit ==
    /\ f_pc = "emit"
    /\ f_out' = FALSE
    /\ f_pc' = "observe"
    /\ UNCHANGED f_in

NextSteady ==
    \/ SteadyObserve /\ UNCHANGED <<sensorVars, hostVars, timeVars>>
    \/ SteadyEmit /\ UNCHANGED <<sensorVars, hostVars, timeVars>>

SpecSteady == InitSteady /\ [][NextSteady]_vars /\ WF_vars(NextSteady)

(***************************************************************************)
(* C16. A steady signal stops reporting motion: from some cycle on the      *)
(* baseline stays within 4 of the signal and no cycle finds motion          *)
(* evidence, for every starting baseline and every signal of the i8 range.  *)
(***************************************************************************)
C16_SteadySignalSettles ==
    <>[](AbsInt(f_in.rssi - f_in.base) <= 4 /\ ~f_out)

(***************************************************************************)
(* C17. Last write wins on decode success: a line that decodes as a         *)
(* telemetry record makes latest_data that record and adds exactly one      *)
(* entry to the log, the summary of its counter, of "MOTION!" when its      *)
(* motion field is not 0 and "still" otherwise, and of its number of        *)
(* access points; at all times latest_data is the record of the most        *)
(* recent handed line that decodes, and empty when none did.                *)
(***************************************************************************)
\* the position of the most recent well-formed line, 0 when there is none
LastDecoded(lines) ==
    IF \E i \in 1..Len(lines) : WellFormed(lines[i])
    THEN CHOOSE i \in 1..Len(lines) :
             WellFormed(lines[i]) /\ \A j \in (i + 1)..Len(lines) : ~WellFormed(lines[j])
    ELSE 0

RecordOf(text) ==
    [some |-> TRUE, counter |-> text[1].v, motion |-> text[1].m, aps |-> text[1].n]

SummaryOf(text) ==
    [kind |-> "summary", counter |-> text[1].v,
     status |-> IF text[1].m # 0 THEN "MOTION!" ELSE "still",
     aps |-> text[1].n, text |-> <<>>]

C17_LastWriteWins ==
    /\ [](LET i == LastDecoded(handed) IN
          IF i = 0 THEN ~latest_data.some ELSE latest_data = RecordOf(handed[i]))
    /\ [][(Decoding /\ WellFormed(line)) =>
              /\ latest_data' = RecordOf(line)
              /\ messages' = Append(messages, SummaryOf(line))
              /\ pushed' = Append(pushed, SummaryOf(line))
              /\ handed' = Append(handed, line)]_vars

\* two records were stored, the second replaced the first
C17_Witness ==
    /\ Len(handed) = 2
    /\ handed[1] = <<TelemetryText(1, 1, 0)>>
    /\ handed[2] = <<TelemetryText(2, 0, 3)>>
    /\ latest_data = [some |-> TRUE, counter |-> 2, motion |-> 0, aps |-> 3]
    /\ pushed[1].status = "MOTION!"
    /\ pushed[2].status = "still"

(***************************************************************************)
(* The pacing specification: the loop of main() with its clock.  Time is    *)
(* in milliseconds from `let mut last_scan = Instant::now()`.  Time passes  *)
(* inside scan_with_config and inside the busy-wait; the statements of the  *)
(* loop head run at one instant.  The scans find no access point or fail.   *)
(***************************************************************************)
\* how long a scan blocks: less than the interval, more than the interval
ScanTimes == {20, 1500}
\* how long the busy-wait lasts: it ends at the first check that sees 50 ms or more
DelayTimes == {DelayMs, DelayMs + 3}

\* mutant: the interval is a tenth of a second
ScanDue_Tenth(last, t) == t - last >= 100

\* last_scan.elapsed() >= Duration::from_millis(1000)
ScanDue(last, t) == t - last >= ScanIntervalMs

\* let now = Instant::now(); if last_scan.elapsed() >= .. { scan } else fall to the delay
LoopTop ==
    /\ t_pc = "top"
    /\ s_pc = "loop"
    /\ now' = clock
    /\ IF ScanDue(last_scan, clock)
       THEN t_pc' = "scan" /\ started' = clock
       ELSE t_pc' = "delay" /\ UNCHANGED started
    /\ UNCHANGED <<clock, last_scan>>

\* scan_with_config returns Ok after d ms
TimedScanOk(d) ==
    /\ t_pc = "scan"
    /\ clock + d <= MaxClock
    /\ ScanOk
    /\ clock' = clock + d
    /\ UNCHANGED <<now, last_scan, t_pc, started>>

\* the Ok arm ends with the telemetry line; last_scan = now
TimedEmit ==
    /\ t_pc = "scan"
    /\ EmitTelemetry
    /\ last_scan' = now
    /\ t_pc' = "delay"
    /\ UNCHANGED <<clock, now, started>>

\* scan_with_config returns Err after d ms; the error line; last_scan = now
TimedScanFail(d) ==
    /\ t_pc = "scan"
    /\ clock + d <= MaxClock
    /\ ScanFail
    /\ clock' = clock + d
    /\ last_scan' = now
    /\ t_pc' = "delay"
    /\ UNCHANGED <<now, started>>

\* let delay_start = Instant::now(); while delay_start.elapsed() < 50 ms {}
Delay(d) ==
    /\ t_pc = "delay"
    /\ clock + d <= MaxClock
    /\ clock' = clock + d
    /\ t_pc' = "top"
    /\ UNCHANGED <<now, last_scan, started>>

NextTiming ==
    \/ LoopTop /\ UNCHANGED <<sensorVars, hostVars, pureVars>>
    \/ (\E d \in ScanTimes : TimedScanOk(d)) /\ UNCHANGED <<hostVars, pureVars>>
    \/ TimedEmit /\ UNCHANGED <<hostVars, pureVars>>
    \/ (\E d \in ScanTimes : TimedScanFail(d)) /\ UNCHANGED <<hostVars, pureVars>>
    \/ (\E d \in DelayTimes : Delay(d)) /\ UNCHANGED <<sensorVars, hostVars, pureVars>>

SpecTiming == Init /\ [][NextTiming]_vars

(***************************************************************************)
(* C18. Scan spacing: a scan attempt starts at least 1000 ms after the      *)
(* start of the attempt before it, successful or failed and however long    *)
(* it took, the first one at least 1000 ms after startup; every loop        *)
(* iteration, with or without a scan, ends with the delay of at least       *)
(* 50 ms.  The start of an attempt is the instant its iteration samples     *)
(* as `now`.                                                                *)
(***************************************************************************)
C18_ScanSpacing ==
    [][/\ (t_pc = "top" /\ t_pc' = "scan") =>
              /\ clock >= 1000
              /\ started # None => clock - started >= 1000
       /\ (t_pc = "top" /\ t_pc' # "top") => t_pc' \in {"scan", "delay"}
       /\ (t_pc = "scan" /\ t_pc' # "scan") => t_pc' = "delay"
       /\ (t_pc # "top" /\ t_pc' = "top") =>
              /\ t_pc = "delay"
              /\ clock' - clock >= 50]_vars

\* a scan that took 1500 ms failed; the next attempt starts right after the delay
C18_Witness ==
    /\ t_pc = "scan"
    /\ started = 2550
    /\ last_scan = 1000
    /\ uart_line = [type |-> "error"]

(***************************************************************************)
(* The fair host specification: the host under fair scheduling, fed short   *)
(* streams in every chunking.  Both threads keep running (weak fairness of  *)
(* each step; port.read has a timeout, so a read always returns), and a     *)
(* thread that keeps asking for the guard gets it (strong fairness of the   *)
(* two lock() calls).  app() returning ends the process and both threads.   *)
(***************************************************************************)
FairAlphabet == {Byte(10), Byte(97), TelemetryText(1, 1, 0)}

ReadFairBytes ==
    \E chunk \in UNION {[1..len -> FairAlphabet] : len \in 1..(MaxFairLen - Len(stream))} :
        ReadData(chunk)

NextHostFair ==
    \/ OpenPort /\ UNCHANGED <<sensorVars, timeVars, pureVars>>
    \/ ReadFairBytes /\ UNCHANGED <<sensorVars, timeVars, pureVars>>
    \/ ReadFailure /\ UNCHANGED <<sensorVars, timeVars, pureVars>>
    \/ Sleep /\ UNCHANGED <<sensorVars, timeVars, pureVars>>
    \/ NextLine /\ UNCHANGED <<sensorVars, timeVars, pureVars>>
    \/ IngesterLock /\ UNCHANGED <<sensorVars, timeVars, pureVars>>
    \/ Store /\ UNCHANGED <<sensorVars, timeVars, pureVars>>
    \/ TrimUnlock /\ UNCHANGED <<sensorVars, timeVars, pureVars>>
    \/ Draw /\ UNCHANGED <<sensorVars, timeVars, pureVars>>
    \/ RenderDone /\ UNCHANGED <<sensorVars, timeVars, pureVars>>
    \/ Poll /\ UNCHANGED <<sensorVars, timeVars, pureVars>>

HostFairness ==
    /\ WF_vars(OpenPort /\ UNCHANGED <<sensorVars, timeVars, pureVars>>)
    /\ WF_vars((ReadFairBytes \/ ReadFailure) /\ UNCHANGED <<sensorVars, timeVars, pureVars>>)
    /\ WF_vars(Sleep /\ UNCHANGED <<sensorVars, timeVars, pureVars>>)
    /\ WF_vars(NextLine /\ UNCHANGED <<sensorVars, timeVars, pureVars>>)
    /\ SF_vars(IngesterLock /\ UNCHANGED <<sensorVars, timeVars, pureVars>>)
    /\ WF_vars(Store /\ UNCHANGED <<sensorVars, timeVars, pureVars>>)
    /\ WF_vars(TrimUnlock /\ UNCHANGED <<sensorVars, timeVars, pureVars>>)
    /\ SF_vars(Draw /\ UNCHANGED <<sensorVars, timeVars, pureVars>>)
    /\ WF_vars(RenderDone /\ UNCHANGED <<sensorVars, timeVars, pureVars>>)
    /\ WF_vars(Poll /\ UNCHANGED <<sensorVars, timeVars, pureVars>>)

SpecHostFair == InitHost /\ [][NextHostFair]_vars /\ HostFairness

\* the entry the log gets for a line
EntryOf(text) == IF WellFormed(text) THEN SummaryOf(text) ELSE RawEntry(text)

(***************************************************************************)
(* C19. No deadlock, and progress.  While the process runs: a thread that   *)
(* asks for the guard gets it, and whoever holds it releases it; the        *)
(* ingester holds it only between lock() and the end of the loop body and   *)
(* the consumer only inside render(), so no port read, sleep or key poll    *)
(* happens under it; every complete line in the buffer is taken out, and    *)
(* every line taken is stored: its entry becomes the newest of the log,     *)
(* and latest_data its record when it decodes.                              *)
(***************************************************************************)
C19_NoDeadlockAndProgress ==
    /\ [](mutex = "ingester" => ing_pc \in {"locked", "pushed"})
    /\ [](mutex = "consumer" => con_pc = "render")
    /\ [][/\ mutex = "ingester" => UNCHANGED <<stream, read_result, buffer>>
          /\ (mutex = "consumer" /\ mutex' = "consumer") => con_pc' = con_pc]_vars
    /\ [](ing_pc = "pushed" =>
              /\ messages[Len(messages)] = EntryOf(line)
              /\ WellFormed(line) => latest_data = RecordOf(line))
    /\ (ing_pc = "lock") ~> (mutex = "ingester" \/ ~Running)
    /\ (con_pc = "draw") ~> (mutex = "consumer")
    /\ (mutex = "ingester") ~> (mutex # "ingester" \/ ~Running)
    /\ (mutex = "consumer") ~> (mutex # "consumer")
    /\ (Find(buffer) # 0) ~> (Find(buffer) = 0 \/ ~Running)
    /\ (ing_pc = "lock") ~> (ing_pc = "pushed" \/ ~Running)

\* the ingester waits for the guard with a line in hand while the consumer renders
C19_Witness ==
    /\ ing_pc = "lock"
    /\ mutex = "consumer"
    /\ con_pc = "render"
    /\ Find(buffer) # 0

====
